---------------------------- MODULE Spec2Model ----------------------------
(***************************************************************************)
(* A model of the MAAS storage configurator of snappy-device-agents       *)
(* (src/src/snappy_device_agents/devices/maas2/maas_storage.py, class     *)
(* ConfigureMaasStorage).                                                  *)
(*                                                                         *)
(* Strings the code inspects character by character (partition sizes) are *)
(* sequences of one-character strings; arbitrary-precision Python         *)
(* integers are sequences of decimal digits, most significant first,      *)
(* without leading zeros (<<>> is zero), because the byte counts the      *)
(* code computes exceed TLC's machine integers.                           *)
(***************************************************************************)
EXTENDS Naturals, Integers, Sequences, FiniteSets

(***************************************************************************)
(* Bounds of the model.                                                    *)
(***************************************************************************)
\* the longest numeric part of a size string ("4.1" has three characters)
MaxBody == 3

\* the most block devices in a machine's inventory
MaxDevices == 1

\* the most partitions on one block device of the inventory
MaxParts == 1

\* the most entries in a configuration's "disks" list
MaxEntries == 2

\* the most times in a row the caller runs clear_storage_config
MaxRuns == 2

\* the most jobs in the "jobs" list of a multi-device job
MaxJobs == 3

\* the most labelled partitions lsblk lists on the test device
MaxPartitions == 4

(***************************************************************************)
(* Decimal digit sequences: Python's unbounded int.                        *)
(***************************************************************************)
DigitChars == <<"0", "1", "2", "3", "4", "5", "6", "7", "8", "9">>

Digits == {DigitChars[i] : i \in 1..10}

DigitVal(c) == (CHOOSE i \in 1..10 : DigitChars[i] = c) - 1

RECURSIVE StripZeros(_)
StripZeros(x) ==
    IF x # <<>> /\ x[1] = 0 THEN StripZeros(Tail(x)) ELSE x

\* the digits of a machine natural
RECURSIVE NatDigits(_)
NatDigits(n) == IF n = 0 THEN <<>> ELSE Append(NatDigits(n \div 10), n % 10)

\* x * k + c for a digit sequence x and machine naturals k, c below 2^24
RECURSIVE MulSmall(_, _, _)
MulSmall(x, k, c) ==
    IF x = <<>>
    THEN NatDigits(c)
    ELSE LET d == x[Len(x)] * k + c
         IN  Append(MulSmall(SubSeq(x, 1, Len(x) - 1), k, d \div 10), d % 10)

\* the digits of floor(x / k), leading zeros kept, by long division (k < 2^24)
RECURSIVE DivDigits(_, _, _)
DivDigits(x, k, r) ==
    IF x = <<>>
    THEN <<>>
    ELSE LET d == r * 10 + x[1]
         IN  <<d \div k>> \o DivDigits(Tail(x), k, d % k)

Dbl(x) == MulSmall(x, 2, 0)

Half(x) == StripZeros(DivDigits(x, 2, 0))

Odd(x) == x # <<>> /\ x[Len(x)] % 2 = 1

Inc(x) == MulSmall(x, 1, 1)

\* x < y for digit sequences without leading zeros
RECURSIVE LexLess(_, _)
LexLess(x, y) ==
    /\ x # <<>>
    /\ \/ x[1] < y[1]
       \/ x[1] = y[1] /\ LexLess(Tail(x), Tail(y))

Less(x, y) ==
    \/ Len(x) < Len(y)
    \/ Len(x) = Len(y) /\ LexLess(x, y)

Zeros(n) == [i \in 1..n |-> 0]

\* x * 10^n
ShiftLeft(x, n) == IF x = <<>> THEN <<>> ELSE x \o Zeros(n)

RECURSIVE Pow2(_)
Pow2(n) == IF n = 0 THEN 1 ELSE 2 * Pow2(n - 1)

\* x * 2^n, twenty bits at a time
RECURSIVE DblTimes(_, _)
DblTimes(x, n) ==
    IF n = 0 THEN x
    ELSE LET j == IF n > 20 THEN 20 ELSE n
         IN  DblTimes(MulSmall(x, Pow2(j), 0), n - j)

\* floor(x / 2^n), twenty bits at a time
RECURSIVE HalfTimes(_, _)
HalfTimes(x, n) ==
    IF n = 0 THEN x
    ELSE LET j == IF n > 20 THEN 20 ELSE n
         IN  HalfTimes(StripZeros(DivDigits(x, Pow2(j), 0)), n - j)

\* str() of a non-negative Python int
DigitsToStr(x) ==
    IF x = <<>> THEN <<"0">> ELSE [i \in 1..Len(x) |-> DigitChars[x[i] + 1]]

\* str() of a Python int given by its sign and magnitude
IntToStr(neg, x) ==
    IF neg /\ x # <<>> THEN <<"-">> \o DigitsToStr(x) ELSE DigitsToStr(x)


(***************************************************************************)
(* Python's int(str) and float(str) on the characters of the model's      *)
(* alphabet (digits, sign, point, letters), and IEEE-754 double            *)
(* arithmetic as CPython performs it: float() rounds the decimal to the   *)
(* nearest double (ties to even), float * int rounds the exact product    *)
(* the same way, int(float) truncates toward zero.                        *)
(***************************************************************************)
TwoTo52 == <<4, 5, 0, 3, 5, 9, 9, 6, 2, 7, 3, 7, 0, 4, 9, 6>>

TwoTo53 == <<9, 0, 0, 7, 1, 9, 9, 2, 5, 4, 7, 4, 0, 9, 9, 2>>

Signs == {"-", "+"}

Unsigned(s) == IF s # <<>> /\ s[1] \in Signs THEN Tail(s) ELSE s

Negative(s) == s # <<>> /\ s[1] = "-"

\* int(s) succeeds: an optional sign and at least one digit, nothing else
IntLiteral(s) ==
    /\ Unsigned(s) # <<>>
    /\ \A i \in 1..Len(Unsigned(s)) : Unsigned(s)[i] \in Digits

\* the magnitude of int(s)
IntDigits(s) == StripZeros([i \in 1..Len(Unsigned(s)) |-> DigitVal(Unsigned(s)[i])])

\* float(s) succeeds: an optional sign, digits with at most one point, and
\* at least one digit
FloatLiteral(s) ==
    LET u == Unsigned(s)
    IN  /\ \A i \in 1..Len(u) : u[i] \in Digits \cup {"."}
        /\ Cardinality({i \in 1..Len(u) : u[i] = "."}) <= 1
        /\ \E i \in 1..Len(u) : u[i] \in Digits

\* the number of digits after the point
FracLen(s) ==
    LET u == Unsigned(s)
        dots == {i \in 1..Len(u) : u[i] = "."}
    IN  IF dots = {} THEN 0 ELSE Len(u) - (CHOOSE i \in dots : TRUE)

\* the digits of s with the point removed: s denotes DecDigits / 10^FracLen
DecDigits(s) ==
    LET u == Unsigned(s)
        d == SelectSeq(u, LAMBDA c : c # ".")
    IN  StripZeros([i \in 1..Len(d) |-> DigitVal(d[i])])

\* double st.x up to the binade [lim, 2 lim), counting the doublings in st.s
RECURSIVE ScaleUp(_, _)
ScaleUp(st, lim) ==
    IF Less(st.x, lim) THEN ScaleUp([x |-> Dbl(st.x), s |-> st.s + 1], lim) ELSE st

\* round-half-even of x / 10^f
RoundDec(x, f) ==
    LET q == SubSeq(x, 1, Len(x) - f)
        r == SubSeq(x, Len(x) - f + 1, Len(x))
        half == <<5>> \o Zeros(f - 1)
    IN  IF f = 0 THEN x
        ELSE IF LexLess(half, r) \/ (r = half /\ Odd(q)) THEN Inc(q)
        ELSE q

\* the double nearest to n / 10^f, n > 0 below 2^53 10^f, as m / 2^s
NearestDouble(n, f) ==
    LET up == ScaleUp([x |-> n, s |-> 0], ShiftLeft(TwoTo52, f))
    IN  [m |-> RoundDec(up.x, f), s |-> up.s]

\* halve st.x down to 53 bits, rounding half to even: st.t halvings so far,
\* st.rb the last bit shifted out, st.st whether any bit before it was set
RECURSIVE RoundBits(_)
RoundBits(st) ==
    IF Less(st.x, TwoTo53)
    THEN [m |-> IF st.rb /\ (st.st \/ Odd(st.x)) THEN Inc(st.x) ELSE st.x, t |-> st.t]
    ELSE RoundBits([x |-> Half(st.x), t |-> st.t + 1, rb |-> Odd(st.x),
                    st |-> st.st \/ st.rb])

\* the magnitude of int(float(s) * 10^k) for a float literal s
FloatTimesPow10(s, k) ==
    IF DecDigits(s) = <<>> THEN <<>>
    ELSE LET a == NearestDouble(DecDigits(s), FracLen(s))
             p == RoundBits([x |-> ShiftLeft(a.m, k), t |-> 0, rb |-> FALSE, st |-> FALSE])
         IN  IF p.t >= a.s THEN DblTimes(p.m, p.t - a.s)
             ELSE HalfTimes(p.m, a.s - p.t)

\* str.capitalize() of a one-character string
Capitalize(c) ==
    CASE c = "m" -> "M"
      [] c = "g" -> "G"
      [] c = "t" -> "T"
      [] c = "k" -> "K"
      [] c = "x" -> "X"
      [] OTHER -> c

(***************************************************************************)
(* ConfigureMaasStorage.get_disksize_real_value                            *)
(***************************************************************************)
Returned(v) == [kind |-> "return", val |-> v, exc |-> "", origin |-> ""]

Raised(exc, origin) == [kind |-> "raise", val |-> <<>>, exc |-> exc, origin |-> origin]

Suffixes == <<"M", "G", "T">>

\* the loop over enumerate(["M", "G", "T"]) from index n (1-based) on
RECURSIVE SuffixLoop(_, _)
SuffixLoop(value, n) ==
    IF n > Len(Suffixes)
    THEN Raised("ValueError", "int")
    ELSE IF value = <<>>
    THEN Raised("IndexError", "value[-1]")
    ELSE IF Capitalize(value[Len(value)]) = Suffixes[n]
    THEN LET body == SubSeq(value, 1, Len(value) - 1)
         IN  IF FloatLiteral(body)
             THEN Returned(IntToStr(Negative(body), FloatTimesPow10(body, 3 * (n + 1))))
             ELSE Raised("ValueError", "float")
    ELSE SuffixLoop(value, n + 1)

\* as get_disksize_real_value, but a size without suffix is taken as megabytes
get_disksize_real_value_mb(value) ==
    IF IntLiteral(value)
    THEN Returned(IntToStr(Negative(value), ShiftLeft(IntDigits(value), 6)))
    ELSE SuffixLoop(value, 1)

get_disksize_real_value(value) ==
    IF IntLiteral(value)
    THEN Returned(IntToStr(Negative(value), IntDigits(value)))
    ELSE SuffixLoop(value, 1)


(***************************************************************************)
(* Strings of the command lines.  Join is "".join(...), Str is str(int).   *)
(***************************************************************************)
RECURSIVE Join(_)
Join(s) == IF s = <<>> THEN "" ELSE s[1] \o Join(Tail(s))

Str(n) == Join(DigitsToStr(NatDigits(n)))

\* Python values the methods return or raise
PyNone == [py |-> "None"]

PyDict(items) == [py |-> "dict", items |-> items]

NoReturn == [py |-> "(no return)"]

NoErr == [type |-> "none", msg |-> ""]

Err(type, msg) == [type |-> type, msg |-> msg]

\* None passed where a gateway operation takes an id string
NoneArg == "None"

(***************************************************************************)
(* The inputs: the machine's block devices as the backend knows them, and *)
(* the configuration entries.                                              *)
(***************************************************************************)
\* filesystem is None, or a record whose mount_point may be None
Filesystems == {[present |-> FALSE, mounted |-> FALSE],
                [present |-> TRUE, mounted |-> FALSE],
                [present |-> TRUE, mounted |-> TRUE]}

\* the block device with backend id i: partition k of it has id 10 i + k
BlockDevice(i, type, np, fs) ==
    [id |-> i, type |-> type,
     partitions |-> [k \in 1..np |-> [id |-> 10 * i + k]],
     filesystem |-> fs]

DevicesAt(i) ==
    {BlockDevice(i, "physical", np, fs) : np \in 0..MaxParts, fs \in Filesystems}
    \cup {BlockDevice(i, "virtual", np, [present |-> TRUE, mounted |-> TRUE]) :
            np \in 0..MaxParts}

Inventories ==
    UNION {{inv \in [1..n -> UNION {DevicesAt(i) : i \in 1..n}] :
               \A i \in 1..n : inv[i].id = i} : n \in 0..MaxDevices}

\* a configuration entry; hasSize, hasName and boot = "absent" say that the
\* key is missing from the entry's dict
Entry(type, id, device, number, hasSize, size, boot, hasName, name) ==
    [type |-> type, id |-> id, device |-> device, number |-> number,
     hasSize |-> hasSize, size |-> size, boot |-> boot,
     hasName |-> hasName, name |-> name]

PartitionEntry(id, device, number, hasSize, size) ==
    Entry("partition", id, device, number, hasSize, size, "absent", FALSE, "")

DiskEntry(id, boot, hasName, name) ==
    Entry("disk", id, "", 0, FALSE, <<>>, boot, hasName, name)

\* an entry of a kind no stage asks for
OtherEntry(id) == Entry("nvme", id, "", 0, FALSE, <<>>, "absent", FALSE, "")

PartitionEntries ==
    {PartitionEntry("part0", "disk0", 2, TRUE, <<"2", "G">>),
     PartitionEntry("part1", "disk0", 1, FALSE, <<>>),
     PartitionEntry("part2", "disk1", 1, TRUE, <<"5", "0", "0">>),
     PartitionEntry("part3", "disk9", 1, TRUE, <<>>),
     PartitionEntry("part4", "disk0", 3, TRUE, <<"1", "X">>)}

DiskEntries ==
    {DiskEntry("disk0", "absent", FALSE, ""),
     DiskEntry("disk0", "true", FALSE, ""),
     DiskEntry("disk1", "false", TRUE, "sda"),
     DiskEntry("disk1", "false", FALSE, "")}

SeqsUpTo(S, n) == UNION {[1..k -> S] : k \in 0..n}

PartitionConfigs == SeqsUpTo(PartitionEntries \cup {OtherEntry("x0")}, MaxEntries)

DiskConfigs == SeqsUpTo(DiskEntries \cup {OtherEntry("x0")}, MaxEntries)

\* the configurations handed to setup_storage
Configs ==
    SeqsUpTo({DiskEntry("disk0", "true", FALSE, ""),
              PartitionEntry("part0", "disk0", 2, TRUE, <<"2", "G">>),
              PartitionEntry("part1", "disk0", 1, FALSE, <<>>)}, MaxEntries)

\* the machine_info dicts handed to setup_storage: MAAS's own, keyed by
\* system_id, and one that has the key the code reads
MachineInfos == {[key |-> "system_id", val |-> "abc123"],
                 [key |-> "self.node_id", val |-> "abc123"]}

\* disk_device_to_blockdevice: configuration disk ids to block devices
DiskMaps ==
    {[d \in {"disk0"} |-> BlockDevice(1, "physical", 0, [present |-> FALSE, mounted |-> FALSE])],
     [d \in {"disk0", "disk1"} |->
        BlockDevice(IF d = "disk0" THEN 1 ELSE 2, "physical", 0,
                    [present |-> FALSE, mounted |-> FALSE])]}

\* the entries of the other kinds; each carries the keys the code reads
BcacheEntry(id, name, cache_device, backing_device, cache_mode) ==
    [type |-> "bcache", id |-> id, name |-> name, cache_device |-> cache_device,
     backing_device |-> backing_device, cache_mode |-> cache_mode]

FormatEntry(id, volume, fstype, label) ==
    [type |-> "format", id |-> id, volume |-> volume, fstype |-> fstype,
     label |-> label]

\* device is kept as its characters: create_mounts slices it
MountEntry(id, device, path) ==
    [type |-> "mount", id |-> id, device |-> device, path |-> path]

LvmVolgroupEntry(id, name, devices) ==
    [type |-> "lvm_volgroup", id |-> id, name |-> name, devices |-> devices]

LvmPartitionEntry(id, name, volgroup, size) ==
    [type |-> "lvm_partition", id |-> id, name |-> name, volgroup |-> volgroup,
     size |-> size]

FormatSuffix == <<"_", "f", "o", "r", "m", "a", "t">>

BcacheEntries ==
    {BcacheEntry("bcache0", "bcache0", "part0", "disk0", "writeback"),
     BcacheEntry("bcache1", "bcache1", "disk0", "part0", "writeback"),
     BcacheEntry("bcache2", "bcache2", "disk9", "disk0", "writeback"),
     BcacheEntry("bcache3", "bcache3", "disk0", "disk9", "writeback")}

FormatEntries ==
    {FormatEntry("part0_format", "part0", "ext4", "data"),
     FormatEntry("disk0_format", "disk0", "ext4", "data"),
     FormatEntry("disk9_format", "disk9", "ext4", "data"),
     FormatEntry("lv0_format", "lv0", "ext4", "data")}

MountEntries ==
    {MountEntry("mount0", <<"p", "a", "r", "t", "0">> \o FormatSuffix, "/data"),
     MountEntry("mount1", <<"d", "i", "s", "k", "0">> \o FormatSuffix, "/data"),
     MountEntry("mount2", <<"d", "i", "s", "k", "9">> \o FormatSuffix, "/data"),
     MountEntry("mount3", <<"l", "v", "0">> \o FormatSuffix, "/data"),
     MountEntry("mount4", <<"p", "a", "r", "t", "0">>, "/data")}

LvmEntries ==
    {LvmVolgroupEntry("vg0", "vg0", <<"disk0">>),
     LvmPartitionEntry("lv0", "lv0", "vg0", <<"1", "G">>)}

BcacheConfigs == SeqsUpTo(BcacheEntries \cup {OtherEntry("x0")}, MaxEntries)

FormatConfigs ==
    SeqsUpTo(FormatEntries \cup LvmEntries \cup {OtherEntry("x0")}, MaxEntries)

MountConfigs ==
    SeqsUpTo(MountEntries \cup LvmEntries \cup {OtherEntry("x0")}, MaxEntries)

\* one disk, one partition of 2G on it, formatted ext4 and mounted at /data
Scenario ==
    <<DiskEntry("disk0", "absent", FALSE, ""),
      PartitionEntry("part0", "disk0", 1, TRUE, <<"2", "G">>),
      FormatEntry("part0_format", "part0", "ext4", "data"),
      MountEntry("mount0", <<"p", "a", "r", "t", "0">> \o FormatSuffix, "/data")>>

\* further configurations handed to setup_storage: the scenario, formats of
\* a volume no entry declares before and after a format of disk0, and a
\* volume group with a logical volume that is formatted and mounted
FullConfigs ==
    {Scenario,
     <<DiskEntry("disk0", "absent", FALSE, ""),
       FormatEntry("disk9_format", "disk9", "ext4", "data"),
       FormatEntry("disk0_format", "disk0", "ext4", "data"),
       MountEntry("mount1", <<"d", "i", "s", "k", "0">> \o FormatSuffix, "/data")>>,
     <<DiskEntry("disk0", "absent", FALSE, ""),
       FormatEntry("disk0_format", "disk0", "ext4", "data"),
       FormatEntry("disk9_format", "disk9", "ext4", "data"),
       MountEntry("mount1", <<"d", "i", "s", "k", "0">> \o FormatSuffix, "/data")>>,
     <<DiskEntry("disk0", "absent", FALSE, ""),
       LvmVolgroupEntry("vg0", "vg0", <<"disk0">>),
       LvmPartitionEntry("lv0", "lv0", "vg0", <<"1", "G">>),
       FormatEntry("lv0_format", "lv0", "ext4", "data"),
       MountEntry("mount3", <<"l", "v", "0">> \o FormatSuffix, "/data")>>}

\* partition_map: configuration partition ids to the ids of the created
\* partition and of its block device; the last one holds an id that the
\* disk maps hold too
PartitionMaps ==
    {<<>>,
     [p \in {"part0"} |-> [partition_id |-> 11, blockdevice_id |-> 1]],
     [p \in {"part0", "disk0"} |-> [partition_id |-> 11, blockdevice_id |-> 1]]}

\* the cache sets the machine has at the backend: one, on block device 1
CacheSets == <<[id |-> "5", cache_device |-> [type |-> "physical", id |-> "1"]]>>

\* the lists of cache sets a machine may have: one of them, on block device
\* 1; one on a device of a type the lookup does not know; both, in either
\* order
CacheSetLists ==
    LET known == [id |-> "5", cache_device |-> [type |-> "physical", id |-> "1"]]
        other == [id |-> "6", cache_device |-> [type |-> "virtual", id |-> "3"]]
    IN  {<<known>>, <<other>>, <<known, other>>, <<other, known>>}

\* what one run of the maas command line ends with: exit status and the
\* captured stdout+stderr
Outcomes == {[rc |-> 0, out |-> "{json}"],
             [rc |-> 1, out |-> "Not Found"],
             [rc |-> 2, out |-> "Conflict"]}


(***************************************************************************)
(* State.  One ConfigureMaasStorage object and its caller: the caller     *)
(* invokes one public method at a time.                                   *)
(***************************************************************************)
VARIABLES
    pc,            \* "idle", a line of setup_storage, "returned" or "raised"
    method,        \* the method the caller invoked last
    maas_user,     \* self.maas_user
    node_id,       \* self.node_id
    machine_info,  \* setup_storage's machine_info argument
    config,        \* the disk_config / config["disks"] argument
    d2b,           \* the disk_device_to_blockdevice dict, as the method leaves it
    calls,         \* the maas command lines run by the current invocation
    err,           \* the exception the current invocation raised
    ret,           \* the value the current invocation returned
    backend,       \* the machine's block devices at the backend
    run,           \* how many invocations the caller has made
    value,         \* get_disksize_real_value's argument
    result,        \* get_disksize_real_value's outcome
    pmap,          \* the partition_map dict, as the invoked method leaves it
    machines,      \* two further objects, one per machine, and their runs
    passed,        \* the two dicts as they were when handed to the method
    bcache_sets,   \* the machine's cache sets at the backend
    multi,         \* a Multi object, its client's record and its run
    riverside      \* a Riverside object and its remote_mount context

vars == <<pc, method, maas_user, node_id, machine_info, config, d2b, calls,
          err, ret, backend, run, value, result, pmap, machines, passed,
          bcache_sets, multi, riverside>>

(***************************************************************************)
(* ConfigureMaasStorage.call_cmd: runs the command, raises                 *)
(* ProvisioningError with the captured output on a non-zero exit status,  *)
(* and otherwise falls off its end, so it returns None.  The helpers      *)
(* _logger_info and _logger_error it calls are not defined in the file;   *)
(* they are taken to log and return.                                      *)
(***************************************************************************)
\* as call_cmd, but a failed command is run a second time
call_cmd_retry(cmd, o) ==
    [log |-> IF o.rc # 0
             THEN <<[cmd |-> cmd, rc |-> o.rc, out |-> o.out],
                    [cmd |-> cmd, rc |-> o.rc, out |-> o.out]>>
             ELSE <<[cmd |-> cmd, rc |-> o.rc, out |-> o.out]>>,
     err |-> IF o.rc # 0 THEN Err("ProvisioningError", o.out) ELSE NoErr,
     value |-> PyNone]

\* as call_cmd, but the exit status is not looked at
call_cmd_unchecked(cmd, o) ==
    [log |-> <<[cmd |-> cmd, rc |-> o.rc, out |-> o.out]>>,
     err |-> NoErr,
     value |-> PyNone]

call_cmd(cmd, o) ==
    [log |-> <<[cmd |-> cmd, rc |-> o.rc, out |-> o.out]>>,
     err |-> IF o.rc # 0 THEN Err("ProvisioningError", o.out) ELSE NoErr,
     value |-> PyNone]

(***************************************************************************)
(* The command line of each gateway operation.                             *)
(***************************************************************************)
Base(resource, action) == <<"maas", maas_user, resource, action, node_id>>

partition_delete_cmd(blockdevice_id, partition_id) ==
    Base("partition", "delete") \o <<blockdevice_id, partition_id>>

unmount_cmd(blockdevice_id) == Base("block-device", "unmount") \o <<blockdevice_id>>

unformat_cmd(blockdevice_id) == Base("block-device", "unformat") \o <<blockdevice_id>>

mount_blockdevice_cmd(blockdevice_id, mount_point) ==
    Base("block-device", "mount") \o <<blockdevice_id, "mount_point=" \o mount_point>>

mount_partition_cmd(blockdevice_id, partition_id, mount_point) ==
    Base("partition", "mount")
        \o <<blockdevice_id, partition_id, "mount_point=" \o mount_point>>

format_partition_cmd(blockdevice_id, partition_id, fstype, label) ==
    Base("partition", "format")
        \o <<blockdevice_id, partition_id, "fstype=" \o fstype, "label=" \o label>>

create_partition_cmd(blockdevice_id, size) ==
    Base("partitions", "create") \o <<blockdevice_id>>
        \o (IF size # NoneArg THEN <<"size=" \o size>> ELSE <<>>)

set_boot_disk_cmd(blockdevice_id) ==
    Base("block-device", "set-boot-disk") \o <<blockdevice_id>>

\* opts is the sequence of the dict's items; None adds nothing
update_blockdevice_cmd(blockdevice_id, opts) ==
    Base("block-device", "update") \o <<blockdevice_id>>
        \o [i \in 1..Len(opts) |-> opts[i][1] \o "=" \o opts[i][2]]

format_blockdevice_cmd(blockdevice_id, fstype, label) ==
    Base("block-device", "format")
        \o <<blockdevice_id, "fstype=" \o fstype, "label=" \o label>>

cache_sets_read_cmd == Base("bcache-cache-sets", "read")

create_cache_set_cmd(blockdevice_id, partition_id) ==
    Base("bcache-cache-sets", "create")
        \o (IF blockdevice_id # NoneArg
            THEN <<"cache_device=" \o blockdevice_id>>
            ELSE <<"cache_partition=" \o partition_id>>)

create_bcache_cmd(name, cache_set_id, blockdevice_id, partition_id, cache_mode) ==
    Base("bcaches", "create")
        \o <<"name=" \o name, "cache_set=" \o cache_set_id,
             "cache_mode=" \o cache_mode>>
        \o (IF blockdevice_id # NoneArg
            THEN <<"backing_device=" \o blockdevice_id>>
            ELSE <<"backing_partition=" \o partition_id>>)

read_bcaches_cmd == Base("bcaches", "read")

read_blockdevices_cmd == Base("block-devices", "read")


(***************************************************************************)
(* The stages.  The methods map_bucket_disks_to_machine_disks,            *)
(* map_disk_device_to_blockdevice and entries_of_type are called but not  *)
(* defined in maas_storage.py; entries_of_type is the Entry Classifier.   *)
(***************************************************************************)
entries_of_type(disk_config, type) == SelectSeq(disk_config, LAMBDA e : e.type = type)

\* sorted(partitions, key=lambda k: k["number"]): a stable sort
RECURSIVE InsertByNumber(_, _)
InsertByNumber(sorted, e) ==
    IF sorted = <<>> THEN <<e>>
    ELSE IF e.number < sorted[1].number THEN <<e>> \o sorted
    ELSE <<sorted[1]>> \o InsertByNumber(Tail(sorted), e)

RECURSIVE SortedByNumber(_)
SortedByNumber(entries) ==
    IF entries = <<>> THEN <<>>
    ELSE InsertByNumber(SortedByNumber(SubSeq(entries, 1, Len(entries) - 1)),
                        entries[Len(entries)])

AttributeError(attr) ==
    Err("AttributeError", "'ConfigureMaasStorage' object has no attribute '" \o attr \o "'")

NotIterable == Err("TypeError", "'NoneType' object is not iterable")

\* as partition_disks, but the whole disk_config is sorted and walked, the
\* classifier not being asked
partition_disks_unfiltered(disk_config, disk_device_to_blockdevice) ==
    LET partitions == SortedByNumber(disk_config)
        partition == partitions[1]
        size == get_disksize_real_value(partition.size)
    IN  IF partitions = <<>>
        THEN [log |-> <<>>, err |-> NoErr, value |-> PyDict(<<>>)]
        ELSE IF partition.device \notin DOMAIN disk_device_to_blockdevice
        THEN [log |-> <<>>, err |-> Err("KeyError", partition.device), value |-> NoReturn]
        ELSE IF partition.hasSize /\ partition.size # <<>> /\ size.kind = "raise"
        THEN [log |-> <<>>, err |-> Err(size.exc, size.origin), value |-> NoReturn]
        ELSE [log |-> <<>>, err |-> AttributeError("self"), value |-> NoReturn]

\* partition_disks: what it raises or returns.  It runs no command: in the
\* first pass of its loop the lookup of the parent device raises KeyError,
\* or the size fails to parse, or the evaluation of the create_partition
\* arguments raises AttributeError at self.self; with no partition entry the
\* loop is not entered and the empty partition_map is returned.
partition_disks(disk_config, disk_device_to_blockdevice) ==
    LET partitions == SortedByNumber(entries_of_type(disk_config, "partition"))
        partition == partitions[1]
        size == get_disksize_real_value(partition.size)
    IN  IF partitions = <<>>
        THEN [log |-> <<>>, err |-> NoErr, value |-> PyDict(<<>>)]
        ELSE IF partition.device \notin DOMAIN disk_device_to_blockdevice
        THEN [log |-> <<>>, err |-> Err("KeyError", partition.device), value |-> NoReturn]
        ELSE IF partition.hasSize /\ partition.size # <<>> /\ size.kind = "raise"
        THEN [log |-> <<>>, err |-> Err(size.exc, size.origin), value |-> NoReturn]
        ELSE [log |-> <<>>, err |-> AttributeError("self"), value |-> NoReturn]

\* update_disks: it runs no command either: the first disk entry with a true
\* boot or with a name raises AttributeError at self.self
update_disks(disk_config, disk_device_to_blockdevice) ==
    LET disks == entries_of_type(disk_config, "disk")
    IN  IF \E i \in 1..Len(disks) : disks[i].boot = "true" \/ disks[i].hasName
        THEN [log |-> <<>>, err |-> AttributeError("self"), value |-> NoReturn]
        ELSE [log |-> <<>>, err |-> NoErr, value |-> PyNone]

\* the commands the loop of clear_storage_config attempts over the block
\* devices it is given; nonstr marks a command line holding the raw integer
\* id, which subprocess.run rejects with TypeError
RECURSIVE ClearAttempts(_)
ClearAttempts(blockdevice_set) ==
    IF blockdevice_set = <<>> THEN <<>>
    ELSE LET blockdevice == blockdevice_set[1]
             deletes == [k \in 1..Len(blockdevice.partitions) |->
                           [cmd |-> partition_delete_cmd(Str(blockdevice.id),
                                        Str(blockdevice.partitions[k].id)),
                            nonstr |-> FALSE]]
             unmount == IF blockdevice.filesystem.mounted
                        THEN <<[cmd |-> unmount_cmd(Str(blockdevice.id)), nonstr |-> FALSE]>>
                        ELSE <<>>
             unformats == <<[cmd |-> unformat_cmd(Str(blockdevice.id)), nonstr |-> TRUE],
                            [cmd |-> unformat_cmd(Str(blockdevice.id)), nonstr |-> FALSE]>>
         IN  (IF blockdevice.type = "virtual" THEN <<>>
              ELSE deletes \o (IF blockdevice.filesystem.present
                               THEN unmount \o unformats ELSE <<>>))
             \o ClearAttempts(Tail(blockdevice_set))

OkLog(attempts, n) == [i \in 1..n |-> [cmd |-> attempts[i].cmd, rc |-> 0, out |-> "{json}"]]

\* the loop run on `attempts` when its k-th command exits as o (k = 0: every
\* command exits with status zero)
RunAttempts(attempts, k, o) ==
    LET bad == {i \in 1..Len(attempts) : attempts[i].nonstr}
        j == IF bad = {} THEN Len(attempts) + 1
             ELSE CHOOSE i \in bad : \A i2 \in bad : i <= i2
    IN  IF j <= Len(attempts) /\ (k = 0 \/ j <= k)
        THEN [log |-> OkLog(attempts, j - 1),
              err |-> Err("TypeError", "expected str, bytes or os.PathLike object, not int"),
              value |-> NoReturn]
        ELSE IF k = 0
        THEN [log |-> OkLog(attempts, Len(attempts)), err |-> NoErr, value |-> PyNone]
        ELSE [log |-> OkLog(attempts, k - 1) \o call_cmd(attempts[k].cmd, o).log,
              err |-> call_cmd(attempts[k].cmd, o).err, value |-> NoReturn]

\* clear_storage_config after read_blockdevices ended as `read`: the ways
\* it can end
clear_storage_config_after(read) ==
    IF read.err # NoErr
    THEN {[log |-> read.log, err |-> read.err, value |-> NoReturn]}
    ELSE IF read.value = PyNone
    THEN {[log |-> read.log, err |-> NotIterable, value |-> NoReturn]}
    ELSE {[log |-> read.log \o r.log, err |-> r.err, value |-> r.value] :
            r \in {RunAttempts(ClearAttempts(read.value.data), k, o) :
                     k \in 0..Len(ClearAttempts(read.value.data)),
                     o \in {x \in Outcomes : x.rc # 0}}}

\* the loop of get_cache_set over the cache sets it is given
RECURSIVE cache_set_loop(_, _, _)
cache_set_loop(cache_sets, blockdevice_id, partition_id) ==
    IF cache_sets = <<>> THEN [err |-> NoErr, value |-> PyNone]
    ELSE LET cache_device == cache_sets[1].cache_device
         IN  IF cache_device.type \notin {"physical", "partition"}
             THEN [err |-> Err("Exception", "Unknown backing device type " \o cache_device.type),
                   value |-> NoReturn]
             ELSE IF cache_device.type = "physical" /\ blockdevice_id = cache_device.id
             THEN [err |-> NoErr, value |-> cache_sets[1]]
             ELSE IF cache_device.type = "partition" /\ partition_id = cache_device.id
             THEN [err |-> NoErr, value |-> cache_sets[1]]
             ELSE cache_set_loop(Tail(cache_sets), blockdevice_id, partition_id)

\* get_cache_set after its read ended as `read`
get_cache_set_after(read, blockdevice_id, partition_id) ==
    IF read.err # NoErr
    THEN [log |-> read.log, err |-> read.err, value |-> NoReturn]
    ELSE IF read.value = PyNone
    THEN [log |-> read.log, err |-> NotIterable, value |-> NoReturn]
    ELSE LET r == cache_set_loop(read.value.data, blockdevice_id, partition_id)
         IN  [log |-> read.log, err |-> r.err, value |-> r.value]

\* setup_bcaches, lines 360-366 and 377-385: the partition map is asked
\* first, by .get; an id it does not hold is indexed in the disk map
resolve_device(device, disk_device_to_blockdevice, partition_map) ==
    IF device \in DOMAIN partition_map
    THEN [err |-> NoErr, partition_id |-> Str(partition_map[device].partition_id),
          blockdevice_id |-> NoneArg]
    ELSE IF device \in DOMAIN disk_device_to_blockdevice
    THEN [err |-> NoErr, partition_id |-> NoneArg,
          blockdevice_id |-> Str(disk_device_to_blockdevice[device].id)]
    ELSE [err |-> Err("KeyError", device), partition_id |-> NoneArg,
          blockdevice_id |-> NoneArg]

\* setup_bcaches: it runs no command: in the first pass of its loop the
\* cache_device is resolved, and then the arguments of get_cache_set are
\* evaluated, which raises AttributeError at self.user_id
setup_bcaches(disk_config, disk_device_to_blockdevice, partition_map) ==
    LET bcaches == entries_of_type(disk_config, "bcache")
        cache == resolve_device(bcaches[1].cache_device,
                                disk_device_to_blockdevice, partition_map)
    IN  IF bcaches = <<>>
        THEN [log |-> <<>>, err |-> NoErr, value |-> PyNone]
        ELSE IF cache.err # NoErr
        THEN [log |-> <<>>, err |-> cache.err, value |-> NoReturn]
        ELSE [log |-> <<>>, err |-> AttributeError("user_id"), value |-> NoReturn]

\* as apply_formats, but the ids of the lvm_partition entries count as
\* registered in the disk map
apply_formats_lvm(disk_config, partition_map, disk_device_to_blockdevice) ==
    LET formats == entries_of_type(disk_config, "format")
        _format == formats[1]
        volumes == entries_of_type(disk_config, "lvm_partition")
    IN  IF formats = <<>>
        THEN [log |-> <<>>, err |-> NoErr, value |-> PyNone]
        ELSE IF _format.volume \in DOMAIN partition_map
        THEN [log |-> <<>>, err |-> AttributeError("user_id"), value |-> NoReturn]
        ELSE IF _format.volume \notin DOMAIN disk_device_to_blockdevice
                    \cup {volumes[i].id : i \in 1..Len(volumes)}
        THEN [log |-> <<>>, err |-> Err("KeyError", _format.volume), value |-> NoReturn]
        ELSE [log |-> <<>>, err |-> AttributeError("user_id"), value |-> NoReturn]

\* as apply_formats, but the disk map is subscripted before the partition
\* map is asked
apply_formats_device_first(disk_config, partition_map, disk_device_to_blockdevice) ==
    LET formats == entries_of_type(disk_config, "format")
        _format == formats[1]
    IN  IF formats = <<>>
        THEN [log |-> <<>>, err |-> NoErr, value |-> PyNone]
        ELSE IF _format.volume \notin DOMAIN disk_device_to_blockdevice
        THEN [log |-> <<>>, err |-> Err("KeyError", _format.volume), value |-> NoReturn]
        ELSE [log |-> <<>>, err |-> AttributeError("user_id"), value |-> NoReturn]

\* apply_formats: it runs no command: the first format entry either names
\* a volume neither map holds, which raises KeyError, or has the arguments
\* of format_partition or format_blockdevice evaluated, which raises
\* AttributeError at self.user_id
apply_formats(disk_config, partition_map, disk_device_to_blockdevice) ==
    LET formats == entries_of_type(disk_config, "format")
        _format == formats[1]
    IN  IF formats = <<>>
        THEN [log |-> <<>>, err |-> NoErr, value |-> PyNone]
        ELSE IF _format.volume \in DOMAIN partition_map
        THEN [log |-> <<>>, err |-> AttributeError("user_id"), value |-> NoReturn]
        ELSE IF _format.volume \notin DOMAIN disk_device_to_blockdevice
        THEN [log |-> <<>>, err |-> Err("KeyError", _format.volume), value |-> NoReturn]
        ELSE [log |-> <<>>, err |-> AttributeError("user_id"), value |-> NoReturn]

\* mount["device"][:-7]: the device without its last seven characters
strip_format(device) == Join(SubSeq(device, 1, Len(device) - 7))

\* as create_mounts, but a mount entry whose volume neither map holds is
\* passed over
create_mounts_skip(disk_config, partition_map, disk_device_to_blockdevice) ==
    LET mounts == SelectSeq(entries_of_type(disk_config, "mount"),
                            LAMBDA e : strip_format(e.device) \in
                                DOMAIN partition_map \cup DOMAIN disk_device_to_blockdevice)
    IN  IF mounts = <<>>
        THEN [log |-> <<>>, err |-> NoErr, value |-> PyNone]
        ELSE [log |-> <<>>, err |-> AttributeError("user_id"), value |-> NoReturn]

\* create_mounts: as apply_formats, on the stripped device of the first
\* mount entry
create_mounts(disk_config, partition_map, disk_device_to_blockdevice) ==
    LET mounts == entries_of_type(disk_config, "mount")
        volume_name == strip_format(mounts[1].device)
    IN  IF mounts = <<>>
        THEN [log |-> <<>>, err |-> NoErr, value |-> PyNone]
        ELSE IF volume_name \in DOMAIN partition_map
        THEN [log |-> <<>>, err |-> AttributeError("user_id"), value |-> NoReturn]
        ELSE IF volume_name \notin DOMAIN disk_device_to_blockdevice
        THEN [log |-> <<>>, err |-> Err("KeyError", volume_name), value |-> NoReturn]
        ELSE [log |-> <<>>, err |-> AttributeError("user_id"), value |-> NoReturn]

\* as setup_bcaches_dicts, but the cache device is taken out of the disk
\* map when it is resolved (pop for the subscript at line 365)
setup_bcaches_dicts_pop(disk_config, disk_device_to_blockdevice, partition_map) ==
    LET bcaches == entries_of_type(disk_config, "bcache")
        gone == IF bcaches # <<>> /\ bcaches[1].cache_device \notin DOMAIN partition_map
                THEN {bcaches[1].cache_device} ELSE {}
    IN  [d2b |-> [k \in DOMAIN disk_device_to_blockdevice \ gone |->
                     disk_device_to_blockdevice[k]],
         pmap |-> partition_map]

\* as setup_bcaches_dicts, but a cache device that is not a partition is
\* entered into the partition map when it is resolved
setup_bcaches_dicts_setdefault(disk_config, disk_device_to_blockdevice, partition_map) ==
    LET bcaches == entries_of_type(disk_config, "bcache")
        new == IF bcaches # <<>> /\ bcaches[1].cache_device \notin DOMAIN partition_map
               THEN {bcaches[1].cache_device} ELSE {}
    IN  [d2b |-> disk_device_to_blockdevice,
         pmap |-> [k \in DOMAIN partition_map \cup new |->
                      IF k \in DOMAIN partition_map THEN partition_map[k] ELSE PyNone]]

\* the two dicts as setup_bcaches leaves them.  Its one write, of the
\* bcache's id into disk_device_to_blockdevice at line 395, comes after the
\* call expressions of the same pass, the first of which raises; the
\* partition_map is only read (.get)
setup_bcaches_dicts(disk_config, disk_device_to_blockdevice, partition_map) ==
    LET bcaches == entries_of_type(disk_config, "bcache")
        done == IF setup_bcaches(disk_config, disk_device_to_blockdevice,
                                 partition_map).err = NoErr
                THEN {bcaches[i].id : i \in 1..Len(bcaches)} ELSE {}
    IN  [d2b |-> [k \in DOMAIN disk_device_to_blockdevice \cup done |->
                     IF k \in done THEN PyNone ELSE disk_device_to_blockdevice[k]],
         pmap |-> partition_map]

\* the two dicts as apply_formats leaves them: it reads them (in, [])
\* and writes neither
apply_formats_dicts(disk_config, partition_map, disk_device_to_blockdevice) ==
    [d2b |-> disk_device_to_blockdevice, pmap |-> partition_map]

\* the two dicts as create_mounts leaves them: it reads them and writes
\* neither
create_mounts_dicts(disk_config, partition_map, disk_device_to_blockdevice) ==
    [d2b |-> disk_device_to_blockdevice, pmap |-> partition_map]

\* setup_storage from line 457 on, were clear_storage_config to return:
\* the disk map of the pluggable mapping step, update_disks,
\* partition_disks, and then the undefined name raid_to_blockdevice
setup_storage_after_clear(disk_config, disk_device_to_blockdevice) ==
    LET u == update_disks(disk_config, disk_device_to_blockdevice)
        p == partition_disks(disk_config, disk_device_to_blockdevice)
    IN  IF u.err # NoErr THEN u.err
        ELSE IF p.err # NoErr THEN p.err
        ELSE Err("NameError", "name 'raid_to_blockdevice' is not defined")


(***************************************************************************)
(* Actions.  The caller invokes one method of a newly constructed object, *)
(* and may run clear_storage_config again, up to MaxRuns times in a row.  *)
(* A gateway operation, clear_storage_config, get_cache_set, update_disks *)
(* and partition_disks run to their end in one step; setup_storage is     *)
(* followed line by line.                                                  *)
(***************************************************************************)
\* no dict was handed to the method
NothingPassed == [d2b |-> <<>>, pmap |-> <<>>]

\* a local variable that no statement has assigned yet
Unbound == "<unbound>"

\* Multi(config, job_data, client) as constructed: self.jobs = []. With it,
\* the locals of provision and create_jobs before the call (jobs_list, i for
\* the place in it, job_id, unallocated, pos for the place in it), and the
\* client's record: the ids submit_job returned, the (job, state) pairs
\* get_status returned and the last of them, the jobs cancel_job was called
\* for, whether the check at line 73 found the time over, the place in
\* jobs_list of the job for which submit_job raised OSError (0: none did).
MultiConstructed ==
    [pc |-> "idle", jobs |-> <<>>, jobs_list |-> <<>>, i |-> 0,
     job_id |-> Unbound, unallocated |-> <<>>, pos |-> 0,
     submitted |-> <<>>, seen |-> {}, last |-> <<>>, cancels |-> <<>>,
     elapsed |-> FALSE, failed |-> 0, err |-> NoErr]

\* Riverside(config, job_data) as constructed. With it, the locals of
\* remote_mount before the call (mount_list, next for the place the for at
\* line 190 takes its next item from, counted from 0 as the list iterator
\* counts, upos for the place in the for at line 201), and the control
\* host's record: the list _get_part_labels returned, the partitions a
\* mkdir was run for, the ones whose mount succeeded, the ones an umount
\* was run for.
RiversideConstructed ==
    [pc |-> "idle", mount_list |-> <<>>, next |-> 0, upos |-> 0,
     listed |-> <<>>, attempted |-> <<>>, mounted |-> {}, umounts |-> <<>>,
     err |-> NoErr]

NoMachine == [key |-> "", val |-> ""]

NotEvaluated == [kind |-> "none", val |-> <<>>, exc |-> "", origin |-> ""]

Callable == pc = "idle"

Ended == pc \in {"returned", "raised"}

\* the invoked method m ends as res, returning retval unless it raised
Finish(m, res, retval) ==
    /\ method' = m
    /\ calls' = res.log
    /\ err' = res.err
    /\ ret' = IF res.err = NoErr THEN retval ELSE NoReturn
    /\ pc' = IF res.err = NoErr THEN "returned" ELSE "raised"

\* a method invoked without configuration arguments
Direct(m, res, retval) ==
    /\ \/ Callable
       \/ Ended /\ method = "clear_storage_config" /\ m = method /\ run < MaxRuns
    /\ Finish(m, res, retval)
    /\ config' = <<>>
    /\ d2b' = <<>>
    /\ machine_info' = NoMachine
    /\ pmap' = <<>>
    /\ passed' = NothingPassed
    /\ run' = run + 1
    /\ UNCHANGED <<maas_user, node_id, backend, value, result, machines,
                   bcache_sets, multi, riverside>>

\* the already-resolved arguments a caller passes to the gateway
BlockdeviceArgs == {"1", "2"}

PartitionArgs == {"11"}

MountPoints == {"/data"}

Fstypes == {"ext4"}

Labels == {"data"}

SizeArgs == {NoneArg, "2000000000"}

OptArgs == {<<>>, <<(<<"name", "sda">>)>>}

mount_blockdevice ==
    \E b \in BlockdeviceArgs, mp \in MountPoints, o \in Outcomes :
        Direct("mount_blockdevice", call_cmd(mount_blockdevice_cmd(b, mp), o), PyNone)

mount_partition ==
    \E b \in BlockdeviceArgs, p \in PartitionArgs, mp \in MountPoints, o \in Outcomes :
        Direct("mount_partition", call_cmd(mount_partition_cmd(b, p, mp), o), PyNone)

format_partition ==
    \E b \in BlockdeviceArgs, p \in PartitionArgs, f \in Fstypes, l \in Labels,
       o \in Outcomes :
        Direct("format_partition", call_cmd(format_partition_cmd(b, p, f, l), o), PyNone)

create_partition ==
    \E b \in BlockdeviceArgs, size \in SizeArgs, o \in Outcomes :
        LET res == call_cmd(create_partition_cmd(b, size), o)
        IN  Direct("create_partition", res, res.value)

set_boot_disk ==
    \E b \in BlockdeviceArgs, o \in Outcomes :
        Direct("set_boot_disk", call_cmd(set_boot_disk_cmd(b), o), PyNone)

update_blockdevice ==
    \E b \in BlockdeviceArgs, opts \in OptArgs, o \in Outcomes :
        LET res == call_cmd(update_blockdevice_cmd(b, opts), o)
        IN  Direct("update_blockdevice", res, res.value)

format_blockdevice ==
    \E b \in BlockdeviceArgs, f \in Fstypes, l \in Labels, o \in Outcomes :
        Direct("format_blockdevice", call_cmd(format_blockdevice_cmd(b, f, l), o), PyNone)

get_cache_set ==
    \E b \in BlockdeviceArgs \cup {NoneArg}, p \in PartitionArgs \cup {NoneArg},
       o \in Outcomes :
        LET res == get_cache_set_after(call_cmd(cache_sets_read_cmd, o), b, p)
        IN  Direct("get_cache_set", res, res.value)

create_cache_set ==
    \E b \in BlockdeviceArgs \cup {NoneArg}, p \in PartitionArgs, o \in Outcomes :
        LET res == call_cmd(create_cache_set_cmd(b, p), o)
        IN  Direct("create_cache_set", res, res.value)

create_bcache ==
    \E b \in BlockdeviceArgs \cup {NoneArg}, p \in PartitionArgs, o \in Outcomes :
        LET res == call_cmd(create_bcache_cmd("bcache0", "5", b, p, "writeback"), o)
        IN  Direct("create_bcache", res, res.value)

read_bcaches ==
    \E o \in Outcomes :
        LET res == call_cmd(read_bcaches_cmd, o)
        IN  Direct("read_bcaches", res, res.value)

read_blockdevices ==
    \E o \in Outcomes :
        LET res == call_cmd(read_blockdevices_cmd, o)
        IN  Direct("read_blockdevices", res, res.value)

clear_storage_config ==
    \E o \in Outcomes :
        \E res \in clear_storage_config_after(call_cmd(read_blockdevices_cmd, o)) :
            Direct("clear_storage_config", res, PyNone)

CallUpdateDisks ==
    \E c \in DiskConfigs, m \in DiskMaps :
        /\ Callable
        /\ Finish("update_disks", update_disks(c, m), PyNone)
        /\ config' = c
        /\ d2b' = m
        /\ machine_info' = NoMachine
        /\ pmap' = <<>>
        /\ passed' = [d2b |-> m, pmap |-> <<>>]
        /\ run' = run + 1
        /\ UNCHANGED <<maas_user, node_id, backend, value, result, machines,
                   bcache_sets, multi, riverside>>

CallPartitionDisks ==
    \E c \in PartitionConfigs, m \in DiskMaps :
        /\ Callable
        /\ Finish("partition_disks", partition_disks(c, m), partition_disks(c, m).value)
        /\ config' = c
        /\ d2b' = m
        /\ machine_info' = NoMachine
        /\ pmap' = <<>>
        /\ passed' = [d2b |-> m, pmap |-> <<>>]
        /\ run' = run + 1
        /\ UNCHANGED <<maas_user, node_id, backend, value, result, machines,
                   bcache_sets, multi, riverside>>

\* a stage method invoked with a configuration and both maps
Staged(m, res, left, c, dm, pm) ==
    /\ Callable
    /\ Finish(m, res, PyNone)
    /\ config' = c
    /\ d2b' = left.d2b
    /\ pmap' = left.pmap
    /\ passed' = [d2b |-> dm, pmap |-> pm]
    /\ machine_info' = NoMachine
    /\ run' = run + 1
    /\ UNCHANGED <<maas_user, node_id, backend, value, result, machines,
                   bcache_sets, multi, riverside>>

CallSetupBcaches ==
    \E c \in BcacheConfigs, m \in DiskMaps, pm \in PartitionMaps :
        Staged("setup_bcaches", setup_bcaches(c, m, pm),
               setup_bcaches_dicts(c, m, pm), c, m, pm)

CallApplyFormats ==
    \E c \in FormatConfigs \cup FullConfigs, m \in DiskMaps, pm \in PartitionMaps :
        Staged("apply_formats", apply_formats(c, pm, m),
               apply_formats_dicts(c, pm, m), c, m, pm)

CallCreateMounts ==
    \E c \in MountConfigs \cup FullConfigs, m \in DiskMaps, pm \in PartitionMaps :
        Staged("create_mounts", create_mounts(c, pm, m),
               create_mounts_dicts(c, pm, m), c, m, pm)

\* setup_storage, line 454: self.node_id = str(machine_info["self.node_id"])
setup_storage_begin ==
    \E mi \in MachineInfos, c \in Configs \cup FullConfigs :
        /\ Callable
        /\ method' = "setup_storage"
        /\ machine_info' = mi
        /\ config' = c
        /\ d2b' = <<>>
        /\ calls' = <<>>
        /\ ret' = NoReturn
        /\ IF mi.key = "self.node_id"
           THEN node_id' = mi.val /\ err' = NoErr /\ pc' = "setup_storage:456"
           ELSE node_id' = node_id /\ err' = Err("KeyError", "self.node_id")
                /\ pc' = "raised"
        /\ run' = run + 1
        /\ pmap' = <<>>
        /\ passed' = NothingPassed
        /\ UNCHANGED <<maas_user, backend, value, result, machines, bcache_sets, multi, riverside>>

\* setup_storage, line 456: self.clear_storage_config(), and what follows
\* it should it return
setup_storage_clear ==
    /\ pc = "setup_storage:456"
    /\ \E o \in Outcomes :
        \E res \in clear_storage_config_after(call_cmd(read_blockdevices_cmd, o)) :
            /\ calls' = res.log
            /\ \E m \in DiskMaps :
                   err' = IF res.err # NoErr THEN res.err
                          ELSE setup_storage_after_clear(config, m)
            /\ pc' = "raised"
    /\ UNCHANGED <<method, maas_user, node_id, machine_info, config, d2b, ret,
                   backend, run, value, result, pmap, machines, passed,
                   bcache_sets, multi, riverside>>

(***************************************************************************)
(* Two machines provisioned side by side: each has its own                *)
(* ConfigureMaasStorage object, and the two runs of setup_storage are     *)
(* interleaved line by line.  The class has no class attribute and the    *)
(* module no global but the logger; the maps are locals of setup_storage. *)
(***************************************************************************)
Machines == {"m1", "m2"}

\* ConfigureMaasStorage(maas_user, node_id), one per machine
Constructed ==
    [m \in Machines |->
        [pc |-> "idle", maas_user |-> "admin",
         node_id |-> IF m = "m1" THEN "node1" ELSE "node2",
         machine_info |-> NoMachine, config |-> <<>>, calls |-> <<>>,
         err |-> NoErr]]

\* the machine_info dicts of machine m
MachineInfosOf(m) ==
    {[key |-> k, val |-> IF m = "m1" THEN "abc123" ELSE "def456"] :
        k \in {"system_id", "self.node_id"}}

\* read_blockdevices' command line as the object `self` builds it
read_blockdevices_of(self) ==
    <<"maas", self.maas_user, "block-devices", "read", self.node_id>>

\* as assign_node_id, but node_id is kept on the class, so every object
\* sees the last value assigned
assign_node_id_shared(objects, m, val) ==
    [k \in DOMAIN objects |-> [objects[k] EXCEPT !.node_id = val]]

\* line 454: self.node_id = ..., on the object of machine m
assign_node_id(objects, m, val) == [objects EXCEPT ![m].node_id = val]

\* line 454 of the run on machine m
PairBegin(m) ==
    /\ machines[m].pc = "idle"
    /\ \E mi \in MachineInfosOf(m), c \in Configs \cup FullConfigs :
          machines' =
              IF mi.key = "self.node_id"
              THEN assign_node_id(
                       [machines EXCEPT ![m].machine_info = mi, ![m].config = c,
                                        ![m].pc = "setup_storage:456"],
                       m, mi.val)
              ELSE [machines EXCEPT ![m].machine_info = mi, ![m].config = c,
                                    ![m].pc = "raised",
                                    ![m].err = Err("KeyError", "self.node_id")]

\* line 456 of the run on machine m, and what follows it should it return
PairClear(m) ==
    /\ machines[m].pc = "setup_storage:456"
    /\ \E o \in Outcomes :
        \E res \in clear_storage_config_after(
                       call_cmd(read_blockdevices_of(machines[m]), o)) :
            \E dm \in DiskMaps :
                machines' =
                    [machines EXCEPT
                        ![m].calls = res.log,
                        ![m].err = IF res.err # NoErr THEN res.err
                                   ELSE setup_storage_after_clear(machines[m].config, dm),
                        ![m].pc = "raised"]

PairStep(m) ==
    /\ PairBegin(m) \/ PairClear(m)
    /\ UNCHANGED <<pc, method, maas_user, node_id, machine_info, config, d2b,
                   calls, err, ret, backend, run, value, result, pmap, passed,
                   bcache_sets, multi, riverside>>

Init ==
    /\ pc = "idle"
    /\ method = "__init__"
    /\ maas_user = "admin"
    /\ node_id = "node1"
    /\ machine_info = NoMachine
    /\ config = <<>>
    /\ d2b = <<>>
    /\ calls = <<>>
    /\ err = NoErr
    /\ ret = NoReturn
    /\ backend \in Inventories
    /\ run = 0
    /\ value = <<>>
    /\ result = NotEvaluated
    /\ pmap = <<>>
    /\ machines = Constructed
    /\ passed = NothingPassed
    /\ bcache_sets = CacheSets
    /\ multi = MultiConstructed
    /\ riverside = RiversideConstructed

Next ==
    \/ mount_blockdevice
    \/ mount_partition
    \/ format_partition
    \/ create_partition
    \/ set_boot_disk
    \/ update_blockdevice
    \/ format_blockdevice
    \/ get_cache_set
    \/ create_cache_set
    \/ create_bcache
    \/ read_bcaches
    \/ read_blockdevices
    \/ clear_storage_config
    \/ CallUpdateDisks
    \/ CallPartitionDisks
    \/ setup_storage_begin
    \/ setup_storage_clear

Spec == Init /\ [][Next]_vars

(***************************************************************************)
(* The size normalizer alone: get_disksize_real_value applied to every    *)
(* size string of the bounded alphabet.                                   *)
(***************************************************************************)
BodyChars == {"0", "1", "4", ".", "-"}

Tails == {<<>>, <<"M">>, <<"m">>, <<"G">>, <<"g">>, <<"T">>, <<"t">>, <<"X">>, <<"k">>}

SizeInputs == {b \o t : b \in SeqsUpTo(BodyChars, MaxBody), t \in Tails}

SizeInit ==
    /\ pc = "idle"
    /\ method = "__init__"
    /\ maas_user = "admin"
    /\ node_id = "node1"
    /\ machine_info = NoMachine
    /\ config = <<>>
    /\ d2b = <<>>
    /\ calls = <<>>
    /\ err = NoErr
    /\ ret = NoReturn
    /\ backend = <<>>
    /\ run = 0
    /\ value \in SizeInputs
    /\ result = NotEvaluated
    /\ pmap = <<>>
    /\ machines = Constructed
    /\ passed = NothingPassed
    /\ bcache_sets = CacheSets
    /\ multi = MultiConstructed
    /\ riverside = RiversideConstructed

CallGetDisksizeRealValue ==
    /\ pc = "idle"
    /\ result = NotEvaluated
    /\ result' = get_disksize_real_value(value)
    /\ method' = "get_disksize_real_value"
    /\ pc' = IF get_disksize_real_value(value).kind = "raise" THEN "raised" ELSE "returned"
    /\ run' = run + 1
    /\ UNCHANGED <<maas_user, node_id, machine_info, config, d2b, calls, err, ret,
                   backend, value, pmap, machines, passed, bcache_sets, multi, riverside>>

SizeNext == CallGetDisksizeRealValue

SizeSpec == SizeInit /\ [][SizeNext]_vars


(***************************************************************************)
(* The methods that take a configuration, on the machine of the disk maps: *)
(* two plain block devices, 1 and 2.                                       *)
(***************************************************************************)
StageInit ==
    /\ pc = "idle"
    /\ method = "__init__"
    /\ maas_user = "admin"
    /\ node_id = "node1"
    /\ machine_info = NoMachine
    /\ config = <<>>
    /\ d2b = <<>>
    /\ calls = <<>>
    /\ err = NoErr
    /\ ret = NoReturn
    /\ backend = <<BlockDevice(1, "physical", 0, [present |-> FALSE, mounted |-> FALSE]),
                   BlockDevice(2, "physical", 0, [present |-> FALSE, mounted |-> FALSE])>>
    /\ run = 0
    /\ value = <<>>
    /\ result = NotEvaluated
    /\ pmap = <<>>
    /\ machines = Constructed
    /\ passed = NothingPassed
    /\ bcache_sets \in CacheSetLists
    /\ multi = MultiConstructed
    /\ riverside = RiversideConstructed

StageNext ==
    \/ CallUpdateDisks
    \/ CallPartitionDisks
    \/ CallSetupBcaches
    \/ CallApplyFormats
    \/ CallCreateMounts
    \/ get_cache_set
    \/ setup_storage_begin
    \/ setup_storage_clear

StageSpec == StageInit /\ [][StageNext]_vars

(***************************************************************************)
(* The two machines alone.                                                 *)
(***************************************************************************)
PairInit ==
    /\ pc = "idle"
    /\ method = "__init__"
    /\ maas_user = "admin"
    /\ node_id = "node1"
    /\ machine_info = NoMachine
    /\ config = <<>>
    /\ d2b = <<>>
    /\ calls = <<>>
    /\ err = NoErr
    /\ ret = NoReturn
    /\ backend = <<>>
    /\ run = 0
    /\ value = <<>>
    /\ result = NotEvaluated
    /\ pmap = <<>>
    /\ machines = Constructed
    /\ passed = NothingPassed
    /\ bcache_sets = CacheSets
    /\ multi = MultiConstructed
    /\ riverside = RiversideConstructed

PairNext == \E m \in Machines : PairStep(m)

PairSpec == PairInit /\ [][PairNext]_vars

(***************************************************************************)
(* Multi: the multi-device agent, one provision() on the object as         *)
(* constructed, followed statement by statement.                           *)
(***************************************************************************)
\* what job_data["provision_data"]["jobs"] may hold: up to MaxJobs job
\* descriptions, each naming the queue it goes to; the empty list stands
\* for a missing key as well (line 112 takes both the same way)
JobLists ==
    UNION {[1..n -> {[job_queue |-> "q"]}] : n \in 0..MaxJobs}

\* the states get_status may report, as lines 62 and 65 tell them apart:
\* allocated, the two that end the wait, and one of the others
JobStates == {"waiting", "allocated", "cancelled", "complete"}

\* list.remove(x): the list without the first x
RECURSIVE remove(_, _)
remove(list, x) ==
    IF list = <<>> THEN <<>>
    ELSE IF Head(list) = x THEN Tail(list)
    ELSE <<Head(list)>> \o remove(Tail(list), x)

\* cancel_jobs, lines 135-139: cancel_job for each job, a failing one logged
cancel_jobs(self, jobs) == [self EXCEPT !.cancels = @ \o jobs]

ProvisioningError(self, msg) ==
    [self EXCEPT !.pc = "raised", !.err = Err("ProvisioningError", msg)]

\* Only the multi-device agent moves.
MultiFrame ==
    UNCHANGED <<pc, method, maas_user, node_id, machine_info, config, d2b,
                calls, err, ret, backend, run, value, result, pmap, machines,
                passed, bcache_sets, riverside>>

\* provision, line 47, and create_jobs to line 119
provision ==
    \E jobs_list \in JobLists :
        /\ multi.pc = "idle"
        /\ multi' = IF jobs_list = <<>>
                    THEN ProvisioningError(
                             [multi EXCEPT !.jobs_list = jobs_list],
                             "You must specify a list of 'jobs' in the 'provision_data' section of your job.")
                    ELSE [multi EXCEPT !.pc = "create_jobs",
                                       !.jobs_list = jobs_list, !.i = 1]
        /\ MultiFrame

\* create_jobs, lines 120-122 and 130-131, submit_job returning the id of a
\* new job; after the last one, provision line 50 to the first pass of the
\* for at line 60
submit_job ==
    LET job_id == Str(Len(multi.submitted) + 1)
        self == [multi EXCEPT !.submitted = Append(@, job_id),
                              !.job_id = job_id,
                              !.jobs = Append(@, job_id)]
    IN  /\ multi.pc = "create_jobs"
        /\ multi' = IF multi.i < Len(multi.jobs_list)
                    THEN [self EXCEPT !.i = @ + 1]
                    ELSE [self EXCEPT !.pc = "for",
                                      !.unallocated = self.jobs, !.pos = 1]
        /\ MultiFrame

\* create_jobs, lines 122-128, submit_job raising OSError: line 124 reads
\* job_id, which only an earlier pass of the loop has assigned
submit_job_OSError ==
    /\ multi.pc = "create_jobs"
    /\ multi' = IF multi.job_id = Unbound
                THEN [multi EXCEPT !.pc = "raised", !.failed = multi.i,
                                   !.err = Err("UnboundLocalError", "job_id")]
                ELSE ProvisioningError(
                         cancel_jobs([multi EXCEPT !.failed = multi.i], multi.jobs),
                         "Unable to create job: " \o multi.job_id)
    /\ MultiFrame
\* as observed, but on a cancelled or complete job only the jobs still
\* waiting are cancelled
observed_cancel_waiting(self, job, state) ==
    LET seen == [self EXCEPT !.seen = @ \cup {<<job, state>>},
                             !.last = <<job, state>>]
    IN  IF state = "allocated"
        THEN [seen EXCEPT !.unallocated = remove(@, job), !.pc = "timeout"]
        ELSE IF state \in {"cancelled", "complete"}
        THEN ProvisioningError(cancel_jobs(seen, seen.unallocated),
                               "Unable to allocate all devices")
        ELSE IF seen.pos < Len(seen.unallocated)
        THEN [seen EXCEPT !.pos = @ + 1]
        ELSE [seen EXCEPT !.pc = "timeout"]

\* as observed, but a job reported complete is taken off the waiting list
\* like an allocated one
observed_complete_allocated(self, job, state) ==
    LET seen == [self EXCEPT !.seen = @ \cup {<<job, state>>},
                             !.last = <<job, state>>]
    IN  IF state \in {"allocated", "complete"}
        THEN [seen EXCEPT !.unallocated = remove(@, job), !.pc = "timeout"]
        ELSE IF state = "cancelled"
        THEN ProvisioningError(cancel_jobs(seen, seen.jobs),
                               "Unable to allocate all devices")
        ELSE IF seen.pos < Len(seen.unallocated)
        THEN [seen EXCEPT !.pos = @ + 1]
        ELSE [seen EXCEPT !.pc = "timeout"]

\* provision, lines 61-71, for the state get_status reported of a job:
\* allocated takes the job off the waiting list and leaves the for;
\* cancelled or complete cancels every job and raises; any other goes on to
\* the next waiting job, or out of the for after the last
observed(self, job, state) ==
    LET seen == [self EXCEPT !.seen = @ \cup {<<job, state>>},
                             !.last = <<job, state>>]
    IN  IF state = "allocated"
        THEN [seen EXCEPT !.unallocated = remove(@, job), !.pc = "timeout"]
        ELSE IF state \in {"cancelled", "complete"}
        THEN ProvisioningError(cancel_jobs(seen, seen.jobs),
                               "Unable to allocate all devices")
        ELSE IF seen.pos < Len(seen.unallocated)
        THEN [seen EXCEPT !.pos = @ + 1]
        ELSE [seen EXCEPT !.pc = "timeout"]

\* provision, one pass of the for at line 60
get_status ==
    \E state \in JobStates :
        /\ multi.pc = "for"
        /\ multi' = observed(multi, multi.unallocated[multi.pos], state)
        /\ MultiFrame

\* provision, lines 73-77 and back to 58-60: the time spent is over the
\* limit or not; if not, the while ends on an empty waiting list and sleeps
\* and starts the for again otherwise
allocation_timeout ==
    \E elapsed \in BOOLEAN :
        /\ multi.pc = "timeout"
        /\ multi' = IF elapsed
                    THEN ProvisioningError(
                             cancel_jobs([multi EXCEPT !.elapsed = TRUE], multi.jobs),
                             "Timed out waiting for devices to allocate")
                    ELSE IF multi.unallocated = <<>>
                    THEN [multi EXCEPT !.pc = "returned"]
                    ELSE [multi EXCEPT !.pc = "for", !.pos = 1]
        /\ MultiFrame

MultiInit ==
    /\ pc = "idle"
    /\ method = "__init__"
    /\ maas_user = "admin"
    /\ node_id = "node1"
    /\ machine_info = NoMachine
    /\ config = <<>>
    /\ d2b = <<>>
    /\ calls = <<>>
    /\ err = NoErr
    /\ ret = NoReturn
    /\ backend = <<>>
    /\ run = 0
    /\ value = <<>>
    /\ result = NotEvaluated
    /\ pmap = <<>>
    /\ machines = Constructed
    /\ passed = NothingPassed
    /\ bcache_sets = CacheSets
    /\ multi = MultiConstructed
    /\ riverside = RiversideConstructed

MultiNext ==
    \/ provision
    \/ submit_job
    \/ submit_job_OSError
    \/ get_status
    \/ allocation_timeout

MultiSpec == MultiInit /\ [][MultiNext]_vars

(***************************************************************************)
(* Riverside: the remote_mount context manager, entered once on the object *)
(* as constructed, followed statement by statement.                        *)
(***************************************************************************)
\* the (name, mount point) pair _get_part_labels makes of the k-th child
\* of the test device, lines 176-180
Part(k) == <<"sda" \o Str(k), "/mnt/agent/label" \o Str(k)>>

\* what _get_part_labels may return: the pairs of the children that have a
\* name and a label, in lsblk's order
PartLists == {[k \in 1..n |-> Part(k)] : n \in 0..MaxPartitions}

\* what running mkdir and mount for a partition may come to, lines 192-193
MountOutcomes == {"mounted", "mkdir fails", "mount fails"}

\* Only the Riverside object moves.
RiversideFrame ==
    UNCHANGED <<pc, method, maas_user, node_id, machine_info, config, d2b,
                calls, err, ret, backend, run, value, result, pmap, machines,
                passed, bcache_sets, multi>>

\* remote_mount, lines 184-189: the list of partitions, asked for a second
\* time when the first answer is empty; then into the for at line 190, or
\* past it to the yield when there is nothing to mount
remote_mount ==
    \E first \in PartLists, second \in PartLists :
        LET mount_list == IF first = <<>> THEN second ELSE first
        IN  /\ riverside.pc = "idle"
            /\ riverside' = [riverside EXCEPT
                                !.pc = IF mount_list = <<>> THEN "yield" ELSE "for",
                                !.mount_list = mount_list,
                                !.listed = mount_list]
            /\ RiversideFrame

\* remote_mount, lines 184 and 189: the lsblk command fails on the control
\* host and _run_control raises ProvisioningError (line 71)
remote_mount_no_labels ==
    /\ riverside.pc = "idle"
    /\ riverside' = [riverside EXCEPT !.pc = "raised",
                                      !.err = Err("ProvisioningError", "lsblk")]
    /\ RiversideFrame

\* remote_mount, one pass of the for at lines 190-197. The for takes the
\* item at the place its iterator has reached in mount_list as the list is
\* now, and moves the iterator one on; a failing mkdir or mount removes the
\* item from the list the for is going through.
for_dev_mount(self, outcome) ==
    LET item == self.mount_list[self.next + 1]
        tried == [self EXCEPT !.attempted = Append(@, item), !.next = @ + 1]
        after == IF outcome = "mounted"
                 THEN [tried EXCEPT !.mounted = @ \cup {item}]
                 ELSE [tried EXCEPT !.mount_list = remove(@, item)]
    IN  IF after.next < Len(after.mount_list)
        THEN after
        ELSE [after EXCEPT !.pc = "yield"]

mkdir_mount ==
    \E outcome \in MountOutcomes :
        /\ riverside.pc = "for"
        /\ riverside' = for_dev_mount(riverside, outcome)
        /\ RiversideFrame

\* remote_mount, lines 198-201: the body of the with statement ends, by
\* its last statement or by an exception, and the finally clause starts
yield ==
    /\ riverside.pc = "yield"
    /\ riverside' = IF riverside.mount_list = <<>>
                    THEN [riverside EXCEPT !.pc = "exited"]
                    ELSE [riverside EXCEPT !.pc = "finally", !.upos = 1]
    /\ RiversideFrame

\* remote_mount, one pass of the for at lines 201-202: the umount passes,
\* or fails and _run_control raises ProvisioningError out of the finally
umount ==
    \E ok \in BOOLEAN :
        LET item == riverside.mount_list[riverside.upos]
            run_control == [riverside EXCEPT !.umounts = Append(@, item)]
        IN  /\ riverside.pc = "finally"
            /\ riverside' =
                  IF ~ok
                  THEN [run_control EXCEPT !.pc = "raised",
                                           !.err = Err("ProvisioningError", "umount")]
                  ELSE IF riverside.upos < Len(riverside.mount_list)
                  THEN [run_control EXCEPT !.upos = @ + 1]
                  ELSE [run_control EXCEPT !.pc = "exited"]
            /\ RiversideFrame

RiversideInit == MultiInit

RiversideNext ==
    \/ remote_mount
    \/ remote_mount_no_labels
    \/ mkdir_mount
    \/ yield
    \/ umount

RiversideSpec == RiversideInit /\ [][RiversideNext]_vars

(***************************************************************************)
(* Properties.                                                             *)
(***************************************************************************)
Last(seq) == seq[Len(seq)]

AllSucceeded == \A i \in 1..Len(calls) : calls[i].rc = 0

\* the stage a command line belongs to, 1 (clear) to 6 (mount)
StageOf(cmd) ==
    CASE cmd[3] = "block-devices" -> 1
      [] cmd[4] \in {"delete", "unmount", "unformat"} -> 1
      [] cmd[4] \in {"set-boot-disk", "update"} -> 2
      [] cmd[3] = "partitions" -> 3
      [] cmd[3] \in {"bcache-cache-sets", "bcaches"} -> 4
      [] cmd[4] = "format" -> 5
      [] cmd[4] = "mount" -> 6

\* the stages a configuration of disk and partition entries gives work to
StagesWithWork(disk_config) ==
    {1}
    \cup (IF \E i \in 1..Len(disk_config) :
                /\ disk_config[i].type = "disk"
                /\ disk_config[i].boot = "true" \/ disk_config[i].hasName
          THEN {2} ELSE {})
    \cup (IF \E i \in 1..Len(disk_config) : disk_config[i].type = "partition"
          THEN {3} ELSE {})

C3_NoCallAfterFailure ==
    \A i \in 1..Len(calls) :
        calls[i].rc # 0 => (i = Len(calls) /\ pc = "raised")

C3_Witness ==
    /\ method = "setup_storage"
    /\ pc = "raised"
    /\ config # <<>>
    /\ Len(calls) = 1
    /\ calls[1].rc # 0

\* C4: a create or read gateway operation whose command exits with status
\* zero returns the backend's record, not None, and get_cache_set can read
\* the cache sets its read returned.
C4_ReturnsRecord ==
    /\ (/\ pc = "returned"
        /\ method \in {"read_blockdevices", "create_partition", "create_cache_set",
                       "create_bcache", "update_blockdevice"})
           => ret # PyNone
    /\ (method = "get_cache_set" /\ Ended /\ AllSucceeded) => err.type # "TypeError"

\* the create command the Partition stage owes to a partition entry
CreateFor(partition, disk_device_to_blockdevice) ==
    create_partition_cmd(
        Str(disk_device_to_blockdevice[partition.device].id),
        IF partition.hasSize /\ partition.size # <<>>
        THEN Join(get_disksize_real_value(partition.size).val)
        ELSE NoneArg)

\* every partition entry names a known disk and a size that parses
WellFormed(disk_config, disk_device_to_blockdevice) ==
    \A i \in 1..Len(disk_config) :
        disk_config[i].type = "partition" =>
            /\ disk_config[i].device \in DOMAIN disk_device_to_blockdevice
            /\ (disk_config[i].hasSize /\ disk_config[i].size # <<>>) =>
                   get_disksize_real_value(disk_config[i].size).kind = "return"

AllDigits(s) == s # <<>> /\ \A i \in 1..Len(s) : s[i] \in Digits

DigitVals(s) == StripZeros([i \in 1..Len(s) |-> DigitVal(s[i])])

\* C6: for a size string that is a bare integer, get_disksize_real_value
\* returns that integer: the same number, and the same string unless the
\* input has leading zeros.
C6_BareInteger ==
    (result # NotEvaluated /\ AllDigits(value)) =>
        /\ result.kind = "return"
        /\ AllDigits(result.val)
        /\ DigitVals(result.val) = DigitVals(value)
        /\ (value[1] # "0" \/ Len(value) = 1) => result.val = value

C6_Witness ==
    /\ result.kind = "return"
    /\ AllDigits(value)
    /\ Len(value) >= 2
    /\ value[1] # "0"

\* an unsigned decimal number: digits with at most one point
PlainNumber(s) == s # <<>> /\ s[1] \notin Signs /\ FloatLiteral(s)

UnitExponent(c) ==
    CASE Capitalize(c) = "M" -> 6
      [] Capitalize(c) = "G" -> 9
      [] Capitalize(c) = "T" -> 12

\* C7: for a number n followed by M, G or T in either case,
\* get_disksize_real_value returns n x 10^6, n x 10^9 or n x 10^12 as an
\* integer string.
C7_DecimalUnits ==
    (/\ result # NotEvaluated
     /\ value # <<>>
     /\ Capitalize(Last(value)) \in {"M", "G", "T"}
     /\ PlainNumber(SubSeq(value, 1, Len(value) - 1)))
    => LET n == SubSeq(value, 1, Len(value) - 1)
       IN  result = Returned(DigitsToStr(
               ShiftLeft(DecDigits(n), UnitExponent(Last(value)) - FracLen(n))))

\* a number followed by a recognized suffix
NumberWithUnit(s) ==
    /\ s # <<>>
    /\ Capitalize(Last(s)) \in {"M", "G", "T"}
    /\ FloatLiteral(SubSeq(s, 1, Len(s) - 1))

\* C8: for a size string that is neither an integer nor a number followed by
\* a recognized suffix, get_disksize_real_value raises the error of its
\* initial integer parse.
C8_OriginalError ==
    (result # NotEvaluated /\ ~IntLiteral(value) /\ ~NumberWithUnit(value)) =>
        result = Raised("ValueError", "int")

\* the commands the Clear stage owes to the block devices: none for a
\* virtual device; for a physical device one delete per partition, then, if
\* it has a filesystem, an unmount if that is mounted, and one unformat
RECURSIVE ClearOwed(_)
ClearOwed(blockdevices) ==
    IF blockdevices = <<>> THEN <<>>
    ELSE LET b == blockdevices[1]
         IN  (IF b.type = "virtual" THEN <<>>
              ELSE [k \in 1..Len(b.partitions) |->
                       partition_delete_cmd(Str(b.id), Str(b.partitions[k].id))]
                   \o (IF b.filesystem.present /\ b.filesystem.mounted
                       THEN <<unmount_cmd(Str(b.id))>> ELSE <<>>)
                   \o (IF b.filesystem.present
                       THEN <<unformat_cmd(Str(b.id))>> ELSE <<>>))
             \o ClearOwed(Tail(blockdevices))

\* C9: a Clear run in which no backend command failed has issued, after the
\* read of the block devices, exactly the commands owed to them, in order.
C9_ClearCalls ==
    (method = "clear_storage_config" /\ Ended /\ AllSucceeded) =>
        /\ calls # <<>>
        /\ calls[1].cmd = read_blockdevices_cmd
        /\ [i \in 1..(Len(calls) - 1) |-> calls[i + 1].cmd] = ClearOwed(backend)

\* no block device has a partition or a filesystem
Clean(blockdevices) ==
    \A i \in 1..Len(blockdevices) :
        /\ blockdevices[i].partitions = <<>>
        /\ ~blockdevices[i].filesystem.present

Visited(m, disk_config) ==
    CASE m = "partition_disks" -> SortedByNumber(entries_of_type(disk_config, "partition"))
      [] m = "setup_bcaches" -> entries_of_type(disk_config, "bcache")
      [] m = "apply_formats" -> entries_of_type(disk_config, "format")
      [] m = "create_mounts" -> entries_of_type(disk_config, "mount")

\* the references of an entry, in the order its stage resolves them
Refs(e) ==
    CASE e.type = "partition" -> <<e.device>>
      [] e.type = "bcache" -> <<e.cache_device, e.backing_device>>
      [] e.type = "format" -> <<e.volume>>
      [] e.type = "mount" -> <<Join(SubSeq(e.device, 1, Len(e.device) - 7))>>

Unresolved(ref) == ref \notin DOMAIN pmap /\ ref \notin DOMAIN d2b

HasUnresolved(e) == \E k \in 1..Len(Refs(e)) : Unresolved(Refs(e)[k])

StageMethods == {"partition_disks", "setup_bcaches", "apply_formats", "create_mounts"}

UndeclaredFormats(disk_config) ==
    {i \in 1..Len(disk_config) :
        /\ disk_config[i].type = "format"
        /\ disk_config[i].volume \notin {disk_config[j].id : j \in 1..Len(disk_config)}}

\* C12: a run of setup_storage whose configuration has a format entry with
\* a volume in neither map, and in which no backend call failed, ends in the
\* Format stage, with the KeyError of such a volume, and has issued no mount
\* call, wherever that entry stands among the format entries.
C12_AbortsInFormat ==
    (/\ method = "setup_storage"
     /\ Ended
     /\ AllSucceeded
     /\ machine_info.key = "self.node_id"
     /\ UndeclaredFormats(config) # {})
    => /\ pc = "raised"
       /\ err.type = "KeyError"
       /\ \E i \in UndeclaredFormats(config) : err.msg = config[i].volume
       /\ \A k \in 1..Len(calls) : calls[k].cmd[4] # "mount"

\* C13: the run of setup_storage on the scenario configuration, no backend
\* call failing, has issued after the read of the block devices the clear
\* commands owed to the machine's block device, then one partition create
\* with size=2000000000 on block device 1, one partition format with
\* fstype=ext4 and label=data, and one partition mount at /data, both naming
\* the same partition of block device 1.
C13_ScenarioCalls ==
    (/\ method = "setup_storage"
     /\ Ended
     /\ AllSucceeded
     /\ machine_info.key = "self.node_id"
     /\ config = Scenario)
    => \E partition_id \in PartitionArgs :
          [i \in 1..Len(calls) |-> calls[i].cmd] =
              <<read_blockdevices_cmd>> \o ClearOwed(backend)
              \o <<create_partition_cmd("1", "2000000000"),
                   format_partition_cmd("1", partition_id, "ext4", "data"),
                   mount_partition_cmd("1", partition_id, "/data")>>

\* C14: the bcache stage, no backend call failing, reuses the cache set that
\* already has the resolved cache_device of a bcache entry: it issues no
\* cache-set create for it and a bcache create naming that cache set; it
\* issues a cache-set create when no cache set matches.
C14_ReusesCacheSet ==
    LET bcaches == entries_of_type(config, "bcache")
        bcache == bcaches[1]
        cache == resolve_device(bcache.cache_device, d2b, pmap)
        backing == resolve_device(bcache.backing_device, d2b, pmap)
        existing == cache_set_loop(CacheSets, cache.blockdevice_id, cache.partition_id).value
        created == \E k \in 1..Len(calls) :
                      calls[k].cmd = create_cache_set_cmd(cache.blockdevice_id,
                                                          cache.partition_id)
    IN  (/\ method = "setup_bcaches"
         /\ Ended
         /\ AllSucceeded
         /\ bcaches # <<>>
         /\ ~HasUnresolved(bcache))
        => IF existing = PyNone THEN created
           ELSE /\ ~created
                /\ \E k \in 1..Len(calls) :
                      calls[k].cmd = create_bcache_cmd(bcache.name, existing.id,
                                         backing.blockdevice_id, backing.partition_id,
                                         bcache.cache_mode)

\* the argument of a create command that names the device of `ref`: the
\* partition when the Partition Map holds the id
DeviceArg(ref, key) ==
    IF ref \in DOMAIN pmap
    THEN key \o "_partition=" \o Str(pmap[ref].partition_id)
    ELSE key \o "_device=" \o Str(d2b[ref].id)

AloneLogs(m, info) ==
    {res.log : res \in UNION {clear_storage_config_after(
                   call_cmd(read_blockdevices_of(
                       [Constructed[m] EXCEPT !.node_id = info.val]), o)) :
                   o \in Outcomes}}

LvmCall(cmd) == cmd[3] \in {"volume-groups", "volume-group"}

LogicalVolume(ref) ==
    \E i, j \in 1..Len(config) :
        /\ config[i].type = "lvm_partition"
        /\ config[i].id = ref
        /\ config[j].type = "lvm_volgroup"
        /\ config[j].id = config[i].volgroup

RecognizedKinds ==
    {"disk", "partition", "raid", "bcache", "lvm_volgroup", "lvm_partition",
     "format", "mount"}

\* the tags the stages hand to the classifier
StageTags == {"disk", "partition", "bcache", "format", "mount"}

\* sub is seq without some of its entries, the others in their order
IsSubSeq(sub, seq) ==
    \E f \in [1..Len(sub) -> 1..Len(seq)] :
        /\ \A k \in 1..Len(sub) : sub[k] = seq[f[k]]
        /\ \A k \in 1..(Len(sub) - 1) : f[k] < f[k + 1]

Recognized(disk_config) == SelectSeq(disk_config, LAMBDA e : e.type \in RecognizedKinds)

\* what the method m makes of a configuration and the maps of the state
OutcomeOf(m, disk_config) ==
    CASE m = "update_disks" -> update_disks(disk_config, d2b)
      [] m = "partition_disks" -> partition_disks(disk_config, d2b)
      [] m = "setup_bcaches" -> setup_bcaches(disk_config, d2b, pmap)
      [] m = "apply_formats" -> apply_formats(disk_config, pmap, d2b)
      [] m = "create_mounts" -> create_mounts(disk_config, pmap, d2b)

C18_PartitionMap ==
    (/\ method = "partition_disks"
     /\ Ended
     /\ AllSucceeded
     /\ WellFormed(config, d2b))
    => LET partitions == entries_of_type(config, "partition")
       IN  /\ pc = "returned"
           /\ ret.py = "dict"
           /\ {ret.items[k][1] : k \in 1..Len(ret.items)} =
                  {partitions[i].id : i \in 1..Len(partitions)}
           /\ \A k \in 1..Len(ret.items) :
                  \E i \in 1..Len(partitions) :
                      /\ partitions[i].id = ret.items[k][1]
                      /\ ret.items[k][2].blockdevice_id = d2b[partitions[i].device].id
                      /\ ret.items[k][2].partition_id \in Nat

\* the size arguments of the create commands issued on block device b
SizeArgsOn(b) ==
    {SubSeq(calls[k].cmd, 7, Len(calls[k].cmd)) :
        k \in {j \in 1..Len(calls) : /\ calls[j].cmd[3] = "partitions"
                                     /\ calls[j].cmd[4] = "create"
                                     /\ calls[j].cmd[6] = b}}

\* C19: partition_disks on such a configuration, no backend call failing,
\* has issued for every partition entry without a size, or with an empty
\* one, a create command with no size argument, and for every other entry a
\* create command with size=<the normalized byte count>; no create command
\* carries size=0 or size=None.
C19_SizeArgument ==
    (/\ method = "partition_disks"
     /\ Ended
     /\ AllSucceeded
     /\ WellFormed(config, d2b))
    => LET partitions == entries_of_type(config, "partition")
       IN  /\ \A i \in 1..Len(partitions) :
                  LET p == partitions[i]
                      b == Str(d2b[p.device].id)
                  IN  IF p.hasSize /\ p.size # <<>>
                      THEN <<"size=" \o Join(get_disksize_real_value(p.size).val)>>
                               \in SizeArgsOn(b)
                      ELSE <<>> \in SizeArgsOn(b)
           /\ \A k \in 1..Len(calls) :
                  /\ "size=0" \notin {calls[k].cmd[j] : j \in 1..Len(calls[k].cmd)}
                  /\ "size=None" \notin {calls[k].cmd[j] : j \in 1..Len(calls[k].cmd)}

\* every reference of every entry of the sequence is in one of the maps
AllResolve(entries) == \A i \in 1..Len(entries) : ~HasUnresolved(entries[i])

\* C21: the bcache stage, no backend call failing, on a configuration whose
\* bcache entries resolve, returns with every bcache entry's id a key of
\* the Block Device Map, held by a virtual device with a backend id, so
\* that a later reference to that id resolves.
C21_BcacheRegistered ==
    LET bcaches == entries_of_type(config, "bcache")
    IN  (/\ method = "setup_bcaches"
         /\ Ended
         /\ AllSucceeded
         /\ bcaches # <<>>
         /\ AllResolve(bcaches))
        => /\ pc = "returned"
           /\ \A i \in 1..Len(bcaches) :
                 /\ bcaches[i].id \in DOMAIN d2b
                 /\ d2b[bcaches[i].id].type = "virtual"

\* the format command owed to a format entry whose volume resolves
FormatFor(_format) ==
    IF _format.volume \in DOMAIN pmap
    THEN format_partition_cmd(Str(pmap[_format.volume].blockdevice_id),
                              Str(pmap[_format.volume].partition_id),
                              _format.fstype, _format.label)
    ELSE format_blockdevice_cmd(Str(d2b[_format.volume].id),
                                _format.fstype, _format.label)

\* C22: apply_formats on a configuration whose format entries resolve, no
\* backend call failing, has issued exactly one command per format entry,
\* in their order: a partition format with the recorded ids when the volume
\* is a key of the Partition Map, a block-device format with the id of the
\* Block Device Map otherwise, each with the entry's fstype and label.
C22_OneFormatPerEntry ==
    LET formats == entries_of_type(config, "format")
    IN  (/\ method = "apply_formats"
         /\ Ended
         /\ AllSucceeded
         /\ AllResolve(formats))
        => /\ pc = "returned"
           /\ [k \in 1..Len(calls) |-> calls[k].cmd] =
                  [i \in 1..Len(formats) |-> FormatFor(formats[i])]

\* the mount command owed to a mount entry whose target resolves
MountFor(mount) ==
    LET volume_name == Join(SubSeq(mount.device, 1, Len(mount.device) - 7))
    IN  IF volume_name \in DOMAIN pmap
        THEN mount_partition_cmd(Str(pmap[volume_name].blockdevice_id),
                                 Str(pmap[volume_name].partition_id), mount.path)
        ELSE mount_blockdevice_cmd(Str(d2b[volume_name].id), mount.path)

\* C23: create_mounts on a configuration whose mount entries resolve, no
\* backend call failing, has issued exactly one command per mount entry, in
\* their order: the target is the device without its _format suffix, the
\* command a partition mount when the target is a key of the Partition Map
\* and a block-device mount otherwise, at the entry's path.
C23_OneMountPerEntry ==
    LET mounts == entries_of_type(config, "mount")
    IN  (/\ method = "create_mounts"
         /\ Ended
         /\ AllSucceeded
         /\ AllResolve(mounts))
        => /\ pc = "returned"
           /\ [k \in 1..Len(calls) |-> calls[k].cmd] =
                  [i \in 1..Len(mounts) |-> MountFor(mounts[i])]

\* the commands the update-disks stage owes to the disk entries
RECURSIVE DiskCommands(_)
DiskCommands(disks) ==
    IF disks = <<>> THEN <<>>
    ELSE LET disk == disks[1]
             b == Str(d2b[disk.id].id)
         IN  (IF disk.boot = "true" THEN <<set_boot_disk_cmd(b)>> ELSE <<>>)
             \o (IF disk.hasName
                 THEN <<update_blockdevice_cmd(b, <<(<<"name", disk.name>>)>>)>>
                 ELSE <<>>)
             \o DiskCommands(Tail(disks))

\* C27: update_disks on a configuration whose disk entries are keys of the
\* Block Device Map, no backend call failing, has issued one set-boot-disk
\* command for each disk entry with a true boot and one update command
\* with name=<name> for each disk entry with a name, on the entry's
\* backend device, and nothing for a disk entry with neither.
C27_UpdateDisksCalls ==
    LET disks == entries_of_type(config, "disk")
    IN  (/\ method = "update_disks"
         /\ Ended
         /\ AllSucceeded
         /\ \A i \in 1..Len(disks) : disks[i].id \in DOMAIN d2b)
        => /\ pc = "returned"
           /\ [k \in 1..Len(calls) |-> calls[k].cmd] = DiskCommands(disks)

\* the ids of the bcache entries of the configuration for which a bcache
\* create command was run and succeeded
BcachesCreated ==
    LET bcaches == entries_of_type(config, "bcache")
    IN  {bcaches[i].id : i \in {j \in 1..Len(bcaches) :
            \E k \in 1..Len(calls) :
                /\ calls[k].rc = 0
                /\ calls[k].cmd[3] = "bcaches"
                /\ calls[k].cmd[4] = "create"
                /\ calls[k].cmd[6] = "name=" \o bcaches[j].name}}

C25_PartitionMapFrame ==
    /\ (method \in {"update_disks", "setup_bcaches", "apply_formats", "create_mounts"}
        /\ Ended) => pmap = passed.pmap
    /\ (method = "partition_disks" /\ pc = "returned") =>
           /\ passed.pmap = <<>>
           /\ ret.py = "dict"
           /\ {ret.items[k][1] : k \in 1..Len(ret.items)} \subseteq
                  {config[i].id : i \in {j \in 1..Len(config) : config[j].type = "partition"}}

C25_Witness ==
    /\ method = "setup_bcaches"
    /\ pc = "raised"
    /\ config # <<>>
    /\ config[1].type = "bcache"
    /\ config[1].cache_device = "disk0"
    /\ DOMAIN passed.pmap = {"part0"}
    /\ pmap = passed.pmap

\* C26: a bcache, format or mount stage whose first reference is a key of
\* the Partition Map resolves it there: the Block Device Map is not
\* subscripted for it, so the stage does not fail with the KeyError of that
\* reference even when the Block Device Map does not hold it; what is
\* resolved is the partition_id of the map's record, with no block-device id.
C26_PartitionIdsViaPartitionMap ==
    (method \in {"setup_bcaches", "apply_formats", "create_mounts"} /\ Ended) =>
        LET entries == Visited(method, config)
            ref == Refs(entries[1])[1]
        IN  (entries # <<>> /\ ref \in DOMAIN pmap)
                => /\ err # Err("KeyError", ref)
                   /\ resolve_device(ref, d2b, pmap).partition_id
                          = Str(pmap[ref].partition_id)
                   /\ resolve_device(ref, d2b, pmap).blockdevice_id = NoneArg

C26_Witness ==
    /\ method = "apply_formats"
    /\ pc = "raised"
    /\ config # <<>>
    /\ config[1].type = "format"
    /\ config[1].volume = "part0"
    /\ "part0" \in DOMAIN pmap
    /\ "part0" \notin DOMAIN d2b
    /\ err.type = "AttributeError"

UnknownTypes ==
    {bcache_sets[i].cache_device.type : i \in 1..Len(bcache_sets)}
        \ {"physical", "partition"}

\* C28: a cache-set lookup whose read succeeded, on a machine with a cache
\* set whose cache device is of a type other than physical and partition,
\* fails with the generic failure that names that type, wherever that cache
\* set stands in the list and whether or not another one matches.
C28_UnknownTypeFails ==
    (method = "get_cache_set" /\ Ended /\ AllSucceeded /\ UnknownTypes # {}) =>
        /\ pc = "raised"
        /\ \E t \in UnknownTypes :
              err = Err("Exception", "Unknown backing device type " \o t)

\* the ids of the format entries of a configuration
FormatIds(disk_config) ==
    LET formats == entries_of_type(disk_config, "format")
    IN  {formats[i].id : i \in 1..Len(formats)}

JobsOf(list) == {list[k] : k \in 1..Len(list)}

SeenFailed ==
    \E job \in JobsOf(multi.submitted) :
        {<<job, "cancelled">>, <<job, "complete">>} \cap multi.seen # {}

\* C31: once a poll has reported a waiting job cancelled or complete, or
\* the check of the time has found the allocation timeout over, provision
\* has ended with ProvisioningError and cancel_job has been called once for
\* every job this provision created, the allocated ones too; provision has
\* not returned.
C31_FailedAllocationCancelsAll ==
    (SeenFailed \/ multi.elapsed) =>
        /\ multi.pc = "raised"
        /\ multi.err.type = "ProvisioningError"
        /\ multi.cancels = multi.submitted

\* a first job was seen allocated, then a second one cancelled, and both
\* were cancelled
C31_Witness ==
    /\ multi.pc = "raised"
    /\ <<"1", "allocated">> \in multi.seen
    /\ multi.last = <<"2", "cancelled">>
    /\ multi.unallocated = <<"2">>
    /\ multi.cancels = <<"1", "2">>

\* C32: when submit_job has raised OSError for the k-th job of the list,
\* the first included, create_jobs has ended with ProvisioningError, with
\* cancel_job called for each of the k-1 jobs submitted before it and no
\* job submitted after it; when create_jobs is through without a failing
\* submission, self.jobs is the list of the ids submit_job returned, in the
\* order of the submissions.
C32_SubmitFailureCancels ==
    /\ multi.failed > 0 =>
          /\ multi.pc = "raised"
          /\ multi.err.type = "ProvisioningError"
          /\ Len(multi.submitted) = multi.failed - 1
          /\ multi.cancels = multi.submitted
    /\ (multi.failed = 0 /\ multi.pc \in {"for", "timeout", "returned"}) =>
          /\ multi.jobs = multi.submitted
          /\ Len(multi.jobs) = Len(multi.jobs_list)

\* C33: once remote_mount is past its for, a mkdir was run for every
\* partition that was listed, whatever failed before it; and once the
\* context is left, the partitions an umount was run for are the ones
\* whose mount had succeeded, no other and each of them.
C33_UmountsWhatWasMounted ==
    /\ riverside.pc \in {"yield", "finally", "exited"} =>
          riverside.attempted = riverside.listed
    /\ JobsOf(riverside.umounts) \subseteq riverside.mounted
    /\ (riverside.pc = "exited" \/ (riverside.pc = "raised" /\ riverside.umounts # <<>>)) =>
          JobsOf(riverside.umounts) = riverside.mounted

=============================================================================
